---------------------------- MODULE Spec2Model ----------------------------
(***************************************************************************)
(* A model of the virtualized data table of react-data-table-custom:       *)
(* src/src/components/VirtualDataTable.tsx (the VirtualTable component,    *)
(* its value classifier, comparator, sorter, row filter and debounced      *)
(* search).                                                                *)
(*                                                                         *)
(* A cell is a JavaScript string, modelled as a sequence of one-character  *)
(* strings, so that trimming, case folding, the regular-expression strip,  *)
(* parseFloat, substring search and collation are computed character by    *)
(* character as the code computes them.  A header cell is a column name    *)
(* and is kept as a plain string: the code only uses it as a key of        *)
(* COLUMN_CONFIG.                                                          *)
(***************************************************************************)
EXTENDS Integers, Sequences, FiniteSets, TLC

(***************************************************************************)
(* Characters and JavaScript string primitives                             *)
(***************************************************************************)

DigitChars == <<"0", "1", "2", "3", "4", "5", "6", "7", "8", "9">>

UpperChars == <<"A", "B", "C", "D", "E", "F", "G", "H", "I", "J", "K", "L", "M",
                "N", "O", "P", "Q", "R", "S", "T", "U", "V", "W", "X", "Y", "Z">>

LowerChars == <<"a", "b", "c", "d", "e", "f", "g", "h", "i", "j", "k", "l", "m",
                "n", "o", "p", "q", "r", "s", "t", "u", "v", "w", "x", "y", "z">>

\* White space as String.prototype.trim sees it (the members the model uses).
WhiteSpaceChars == {" ", "\t", "\n"}

\* The other characters of the model: white space, punctuation, symbols.
OtherChars ==
    <<"\t", "\n", " ", "_", "-", ",", ";", ":", "!", "?", ".", "'", "(", ")",
      "@", "*", "/", "&", "#", "%", "+", "<", "=", ">", "|", "~", "$">>

Range(f) == {f[i] : i \in DOMAIN f}

Chars == Range(DigitChars) \cup Range(UpperChars) \cup Range(LowerChars)
             \cup Range(OtherChars)

IsDigit(c) == c \in Range(DigitChars)

\* The numeric value of each decimal digit character.
DigitValues ==
    [c \in Range(DigitChars) |-> (CHOOSE i \in DOMAIN DigitChars : DigitChars[i] = c) - 1]

DigitValue(c) == DigitValues[c]

\* String.prototype.toLowerCase on each character of the model.
LowerCased ==
    [c \in Chars |->
        IF c \in Range(UpperChars)
        THEN LowerChars[CHOOSE i \in DOMAIN UpperChars : UpperChars[i] = c]
        ELSE c]

LowerChar(c) == LowerCased[c]

\* String.prototype.toLowerCase.
toLowerCase(s) == [i \in DOMAIN s |-> LowerChar(s[i])]

RECURSIVE TrimStart(_)
TrimStart(s) ==
    IF s # <<>> /\ Head(s) \in WhiteSpaceChars THEN TrimStart(Tail(s)) ELSE s

RECURSIVE TrimEnd(_)
TrimEnd(s) ==
    IF s # <<>> /\ s[Len(s)] \in WhiteSpaceChars
    THEN TrimEnd(SubSeq(s, 1, Len(s) - 1))
    ELSE s

\* String.prototype.trim.
trim(s) == TrimEnd(TrimStart(s))

\* String.prototype.includes: the first position at which needle occurs in
\* hay is searched from the left; the empty needle occurs in every string.
RECURSIVE IncludesFrom(_, _, _)
IncludesFrom(hay, needle, i) ==
    IF i + Len(needle) - 1 > Len(hay) THEN FALSE
    ELSE IF SubSeq(hay, i, i + Len(needle) - 1) = needle THEN TRUE
    ELSE IncludesFrom(hay, needle, i + 1)

includes(hay, needle) == IncludesFrom(hay, needle, 1)

\* The number of consecutive decimal digits of s that start at index i.
RECURSIVE DigitRun(_, _)
DigitRun(s, i) ==
    IF i <= Len(s) /\ IsDigit(s[i]) THEN 1 + DigitRun(s, i + 1) ELSE 0

\* The value of a sequence of decimal digits (0 for the empty sequence).
RECURSIVE DigitsValue(_)
DigitsValue(ds) ==
    IF ds = <<>> THEN 0
    ELSE 10 * DigitsValue(SubSeq(ds, 1, Len(ds) - 1)) + DigitValue(ds[Len(ds)])

RECURSIVE Pow10(_)
Pow10(n) == IF n = 0 THEN 1 ELSE 10 * Pow10(n - 1)

(***************************************************************************)
(* A JavaScript number as parseNumericValue can return it: NaN, or the     *)
(* decimal m / 10^e.  After the strip only digits, "." and "-" are left,   *)
(* so parseFloat can meet neither an exponent nor "Infinity", and the      *)
(* decimals of the model are short enough that two of them are equal as    *)
(* doubles exactly when they are equal as decimals.                        *)
(***************************************************************************)
NaN == [nan |-> TRUE, m |-> 0, e |-> 0]

Number(m, e) == [nan |-> FALSE, m |-> m, e |-> e]

isNaN(x) == x.nan

\* The sign-preserving difference a - b of two numbers that are not NaN,
\* scaled by a positive power of ten so that it is an integer.
Minus(a, b) == a.m * Pow10(b.e) - b.m * Pow10(a.e)

\* parseFloat: leading white space is skipped, then the longest prefix that
\* is a decimal literal (sign, digits, ".", digits) is read; NaN when that
\* prefix holds no digit.
parseFloat(str) ==
    LET s        == TrimStart(str)
        signed   == s # <<>> /\ s[1] \in {"-", "+"}
        start    == IF signed THEN 2 ELSE 1
        nInt     == DigitRun(s, start)
        dot      == start + nInt
        hasDot   == dot <= Len(s) /\ s[dot] = "."
        nFrac    == IF hasDot THEN DigitRun(s, dot + 1) ELSE 0
        digits   == SubSeq(s, start, start + nInt - 1)
                        \o SubSeq(s, dot + 1, dot + nFrac)
        magnitude == DigitsValue(digits)
    IN  IF nInt + nFrac = 0 THEN NaN
        ELSE Number(IF signed /\ s[1] = "-" THEN -magnitude ELSE magnitude, nFrac)

(***************************************************************************)
(* Value classifier (VirtualDataTable.tsx, lines 17-41)                    *)
(***************************************************************************)

\* COLUMN_CONFIG[columnName]?.type || 'string'
ColumnType(columnName) ==
    CASE columnName = "Domain"     -> "string"
      [] columnName = "Niche1"     -> "string"
      [] columnName = "Niche2"     -> "string"
      [] columnName = "Traffic"    -> "number"
      [] columnName = "DR"         -> "number"
      [] columnName = "DA"         -> "number"
      [] columnName = "Language"   -> "string"
      [] columnName = "Price"      -> "number"
      [] columnName = "Spam Score" -> "number"
      [] OTHER                     -> "string"

\* The sentinel literals of isEmptyValue, as character sequences.
StrUndefined == <<"u", "n", "d", "e", "f", "i", "n", "e", "d">>

StrNull == <<"n", "u", "l", "l">>

StrNotProvided == <<"N", "o", "t", " ", "P", "r", "o", "v", "i", "d", "e", "d">>

StrDash == <<"-">>

\* A classifier that trims the cell before comparing it with the literals.
isEmptyValue_TrimmedLiterals(value) ==
    LET v == trim(value)
    IN  v \in {<<>>, StrUndefined, StrNull, StrNotProvided, StrDash}

isEmptyValue(value) ==
    \/ value = <<>>
    \/ value = StrUndefined
    \/ value = StrNull
    \/ value = StrNotProvided
    \/ trim(value) = <<>>
    \/ value = StrDash

\* value.replace(/[^0-9.-]+/g, ''): every character that is not a digit, "."
\* or "-" is removed.
StripNonNumeric(value) ==
    SelectSeq(value, LAMBDA c : IsDigit(c) \/ c = "." \/ c = "-")

parseNumericValue(value) == parseFloat(StripNonNumeric(value))

(***************************************************************************)
(* String.prototype.localeCompare(b, undefined, {numeric: true,            *)
(* sensitivity: 'base'}): the comparison of the collation keys of the two  *)
(* strings at primary strength.  Case is ignored, punctuation is not; a    *)
(* maximal run of decimal digits is one collation element that is ordered  *)
(* by its numeric value and that sorts where the digits sort, after white  *)
(* space, punctuation and symbols and before the letters.                  *)
(***************************************************************************)

\* The primary order of the characters of the model in the root collation;
\* "0" stands for every run of digits.
CollationOrder == OtherChars \o <<"0">> \o LowerChars

\* The primary weight of each character: its place in CollationOrder, a
\* digit at the place of "0" and a letter at the place of its lower case.
PrimaryWeights ==
    [c \in Chars |->
        CHOOSE i \in DOMAIN CollationOrder :
            CollationOrder[i] = (IF IsDigit(c) THEN "0" ELSE LowerChar(c))]

PrimaryWeight(c) == PrimaryWeights[c]

\* The collation elements of s from index i on: <<primary weight, value>>.
RECURSIVE CollationKey(_, _)
CollationKey(s, i) ==
    IF i > Len(s) THEN <<>>
    ELSE IF IsDigit(s[i])
         THEN LET n == DigitRun(s, i)
              IN  <<<<PrimaryWeight("0"), DigitsValue(SubSeq(s, i, i + n - 1))>>>>
                      \o CollationKey(s, i + n)
         ELSE <<<<PrimaryWeight(s[i]), 0>>>> \o CollationKey(s, i + 1)

\* The lexicographic comparison of two collation keys: -1, 0 or 1.
RECURSIVE CompareKeys(_, _)
CompareKeys(ka, kb) ==
    IF ka = <<>> /\ kb = <<>> THEN 0
    ELSE IF ka = <<>> THEN -1
    ELSE IF kb = <<>> THEN 1
    ELSE IF ka[1][1] # kb[1][1] THEN (IF ka[1][1] < kb[1][1] THEN -1 ELSE 1)
    ELSE IF ka[1][2] # kb[1][2] THEN (IF ka[1][2] < kb[1][2] THEN -1 ELSE 1)
    ELSE CompareKeys(Tail(ka), Tail(kb))

localeCompare(a, b) == CompareKeys(CollationKey(a, 1), CollationKey(b, 1))

(***************************************************************************)
(* Row comparator and sorter (VirtualDataTable.tsx, lines 133-164)         *)
(***************************************************************************)

\* A comparator that lets the direction reverse the place of an empty cell.
compareValues_EmptyFollowsDirection(aValue, bValue, columnType, direction) ==
    LET aEmpty == isEmptyValue(aValue)
        bEmpty == isEmptyValue(bValue)
        aNum   == parseNumericValue(aValue)
        bNum   == parseNumericValue(bValue)
        sign   == IF direction = "asc" THEN 1 ELSE -1
    IN  IF aEmpty /\ bEmpty THEN 0
        ELSE IF aEmpty THEN sign
        ELSE IF bEmpty THEN -sign
        ELSE IF columnType = "number"
             THEN IF isNaN(aNum) /\ isNaN(bNum) THEN 0
                  ELSE IF isNaN(aNum) THEN 1
                  ELSE IF isNaN(bNum) THEN -1
                  ELSE sign * Minus(aNum, bNum)
             ELSE sign * localeCompare(aValue, bValue)

\* A comparator that puts an unparseable Numeric cell first.
compareValues_NaNFirst(aValue, bValue, columnType, direction) ==
    LET aEmpty == isEmptyValue(aValue)
        bEmpty == isEmptyValue(bValue)
        aNum   == parseNumericValue(aValue)
        bNum   == parseNumericValue(bValue)
        sign   == IF direction = "asc" THEN 1 ELSE -1
    IN  IF aEmpty /\ bEmpty THEN 0
        ELSE IF aEmpty THEN 1
        ELSE IF bEmpty THEN -1
        ELSE IF columnType = "number"
             THEN IF isNaN(aNum) /\ isNaN(bNum) THEN 0
                  ELSE IF isNaN(aNum) THEN -1
                  ELSE IF isNaN(bNum) THEN 1
                  ELSE sign * Minus(aNum, bNum)
             ELSE sign * localeCompare(aValue, bValue)

\* A comparator that does not negate the comparison for "desc".
compareValues_AlwaysAscending(aValue, bValue, columnType, direction) ==
    LET aEmpty == isEmptyValue(aValue)
        bEmpty == isEmptyValue(bValue)
        aNum   == parseNumericValue(aValue)
        bNum   == parseNumericValue(bValue)
    IN  IF aEmpty /\ bEmpty THEN 0
        ELSE IF aEmpty THEN 1
        ELSE IF bEmpty THEN -1
        ELSE IF columnType = "number"
             THEN IF isNaN(aNum) /\ isNaN(bNum) THEN 0
                  ELSE IF isNaN(aNum) THEN 1
                  ELSE IF isNaN(bNum) THEN -1
                  ELSE Minus(aNum, bNum)
             ELSE localeCompare(aValue, bValue)

\* compareValues(aValue, bValue, columnType, direction): a number of which
\* the sort reads the sign.
compareValues(aValue, bValue, columnType, direction) ==
    LET aEmpty == isEmptyValue(aValue)
        bEmpty == isEmptyValue(bValue)
        aNum   == parseNumericValue(aValue)
        bNum   == parseNumericValue(bValue)
    IN  IF aEmpty /\ bEmpty THEN 0
        ELSE IF aEmpty THEN 1
        ELSE IF bEmpty THEN -1
        ELSE IF columnType = "number"
             THEN IF isNaN(aNum) /\ isNaN(bNum) THEN 0
                  ELSE IF isNaN(aNum) THEN 1
                  ELSE IF isNaN(bNum) THEN -1
                  ELSE IF direction = "asc" THEN Minus(aNum, bNum)
                       ELSE -Minus(aNum, bNum)
             ELSE IF direction = "asc" THEN localeCompare(aValue, bValue)
                  ELSE -localeCompare(aValue, bValue)

\* The cell of a row at a zero-based column index.
Cell(row, columnIndex) == row[columnIndex + 1]

\* The comparator sortRows hands to Array.prototype.sort:
\* (a, b) => compareValues(a[columnIndex], b[columnIndex], columnType, direction)
RowCompare(a, b, columnIndex, columnType, direction) ==
    compareValues(Cell(a, columnIndex), Cell(b, columnIndex), columnType, direction)

\* One step of Array.prototype.sort: x is put into the sorted sequence
\* behind every element it does not precede, so that elements that compare
\* equal keep their order (the sort is stable since ES2019).
RECURSIVE InsertSorted(_, _, _, _, _)
InsertSorted(sorted, x, columnIndex, columnType, direction) ==
    IF sorted = <<>> THEN <<x>>
    ELSE IF RowCompare(x, sorted[Len(sorted)], columnIndex, columnType, direction) < 0
         THEN InsertSorted(SubSeq(sorted, 1, Len(sorted) - 1), x,
                           columnIndex, columnType, direction)
                  \o <<sorted[Len(sorted)]>>
         ELSE sorted \o <<x>>

\* A sort that is not stable: an element is put before the elements it
\* compares equal to.
RECURSIVE InsertUnstable(_, _, _, _, _)
InsertUnstable(sorted, x, columnIndex, columnType, direction) ==
    IF sorted = <<>> THEN <<x>>
    ELSE IF RowCompare(x, sorted[Len(sorted)], columnIndex, columnType, direction) <= 0
         THEN InsertUnstable(SubSeq(sorted, 1, Len(sorted) - 1), x,
                             columnIndex, columnType, direction)
                  \o <<sorted[Len(sorted)]>>
         ELSE sorted \o <<x>>

RECURSIVE ArraySort_Unstable(_, _, _, _)
ArraySort_Unstable(arr, columnIndex, columnType, direction) ==
    IF arr = <<>> THEN <<>>
    ELSE InsertUnstable(ArraySort_Unstable(SubSeq(arr, 1, Len(arr) - 1),
                                           columnIndex, columnType, direction),
                        arr[Len(arr)], columnIndex, columnType, direction)

\* [...arr].sort(comparator): a new array, the elements inserted from left
\* to right.
RECURSIVE ArraySort(_, _, _, _)
ArraySort(arr, columnIndex, columnType, direction) ==
    IF arr = <<>> THEN <<>>
    ELSE InsertSorted(ArraySort(SubSeq(arr, 1, Len(arr) - 1),
                                columnIndex, columnType, direction),
                      arr[Len(arr)], columnIndex, columnType, direction)

\* sortRows(rowsToSort, columnIndex, direction), with the headers of the
\* render it was created in.
sortRows(headers, rowsToSort, columnIndex, direction) ==
    LET columnName == headers[columnIndex + 1]
        columnType == ColumnType(columnName)
    IN  ArraySort(rowsToSort, columnIndex, columnType, direction)

(***************************************************************************)
(* Row filter: the body of the debounced callback (lines 112-124)          *)
(***************************************************************************)

\* row[0]?.toLowerCase() || ''
DomainValue(row) == IF Len(row) = 0 THEN <<>> ELSE toLowerCase(row[1])

\* A filter that compares the cell with the query as typed, not lower-cased.
FilterRows_QueryNotLowered(originalRows, query) ==
    IF trim(query) = <<>> THEN originalRows
    ELSE SelectSeq(originalRows, LAMBDA row : includes(DomainValue(row), query))

FilterRows(originalRows, query) ==
    IF trim(query) = <<>> THEN originalRows
    ELSE LET searchLower == toLowerCase(query)
         IN  SelectSeq(originalRows,
                       LAMBDA row : includes(DomainValue(row), searchLower))

(***************************************************************************)
(* The data of the model: cells, rows and Grids                            *)
(***************************************************************************)

CellBCom == <<"b", ".", "c", "o", "m">>

CellACom == <<"a", ".", "c", "o", "m">>

CellCCom == <<"c", ".", "c", "o", "m">>

CellUpperACom == <<"A", ".", "c", "o", "m">>

CellA10 == <<"a", "1", "0">>

CellBA9 == <<"b", " ", "a", "9">>

RowB50 == <<CellBCom, <<"5", "0">>>>

RowADash == <<CellACom, StrDash>>

RowCAbc == <<CellCCom, <<"a", "b", "c">>>>

\* Equal to a.com in the collation and to 50 as a number.
RowUpperA50 == <<CellUpperACom, <<"5", "0", ".", "0">>>>

RowA10 == <<CellA10, <<"$", "1", ",", "2", "0", "0">>>>

RowBA9 == <<CellBA9, <<"7", ".", "5">>>>

RowBlank == <<<<>>, <<" ">>>>

RowDashNeg == <<StrDash, <<"-", "3">>>>

RowPool ==
    {RowB50, RowADash, RowCAbc, RowUpperA50, RowA10, RowBA9, RowBlank, RowDashNeg}

\* The longest row array the sorter and the filter are applied to.
MaxRows == 3

RowArrays == UNION {[1..n -> RowPool] : n \in 0..MaxRows}

\* Header rows: Text then Numeric, and Numeric then a column that
\* COLUMN_CONFIG does not know.
HeaderRows == {<<"Domain", "Traffic">>, <<"Price", "Notes">>}

Columns == {0, 1}

Directions == {"asc", "desc"}

\* The Grids the fetch hook delivers to the table: data[0] is the header row.
GridScenario == <<<<"Domain", "Traffic">>, RowB50, RowADash, RowCAbc>>

GridTies == <<<<"Domain", "Traffic">>, RowUpperA50, RowB50, RowBA9>>

GridSmall == <<<<"Domain", "Traffic">>, RowADash, RowA10>>

Grids == {GridScenario, GridTies, GridSmall}

\* The values the user types into the search input.
QueryEmpty == <<>>

QueryA == <<"a">>

QueryUpperADot == <<"A", ".">>

QueryBlank == <<" ">>

SearchInputs == {QueryEmpty, QueryA, QueryUpperADot, QueryBlank}

\* The queries the filter is applied to as a function.
Queries ==
    SearchInputs \cup {<<" ", "a">>, <<"a", " ">>, <<".", "C", "O", "M">>,
                       <<"b", ".", "c">>, <<"1">>, StrDash}

(***************************************************************************)
(* State                                                                   *)
(***************************************************************************)

VARIABLES
    \* The mounted VirtualTable component (lines 43-50, 111-131, 166-178).
    data,            \* the Grid prop: header row, then the data rows
    rows,            \* useState(originalRows): the working row array
    searchQuery,     \* useState(""): the raw query of the search input
    sortConfig,      \* useState(null): the Sort Spec
    timer,           \* the pending call of the debounced search, if any
    mounted,         \* FALSE once the component is torn down
    effectiveQuery,  \* history: the query of the last filter pass
    burst,           \* history: search inputs since the last filter pass
    lastBurst,       \* history: the search inputs the last filter pass settled
    \* The sorter applied as a function.
    sortHeaders, rowsToSort, sortColumn, sortDirection,
    sortedRows, sortedAgain, sortPhase,
    \* The filter applied as a function.
    filterInput, filterQuery, filterOutput, filterPhase,
    \* The empty-value classifier applied as a function.
    cell, cellIsEmpty, classifyPhase,
    \* AuthProvider and LoginForm (AuthContext.tsx lines 6-26, 53-81).
    isAuthenticated, \* useState(false) of AuthProvider
    username,        \* useState("") of LoginForm
    password,        \* useState("") of LoginForm
    formError,       \* useState(""): the error of LoginForm
    isLoading,       \* useState(false): a submit is awaiting login
    loginResult,     \* what the last call of login resolved to, if any
    demoSession,     \* history: a demo/demo login with no logout since
    \* useGoogleSheets (useGoogleSheets.ts lines 20-70).
    totalRows,       \* useState(0)
    metaStatus,      \* metadataQuery: "pending", "success" or "error"
    metaAttempts,    \* failed attempts of metadataQuery so far
    dataStatus,      \* dataQuery: "disabled", "running", "success", "error"
    dataAttempts,    \* failed attempts of dataQuery so far
    currentRow,      \* let currentRow of the running queryFn
    chunks,          \* const chunks of the running queryFn
    inFlight,        \* the chunk requests awaiting their response
    gridData,        \* dataQuery.data || []
    requests,        \* history: the chunk requests of the current run
    responses,       \* history: the values each of them returned
    dropped,         \* history: start rows answered by an API error
    \* The windowed table body (VirtualDataTable.tsx lines 188-193, 278-302;
    \* unnamed/part_001 lines 28-33, 67-87).
    tableVariant,    \* which of the two table components is mounted
    count,           \* count: rows.length
    isMobile,        \* useState(window.innerWidth < 640)
    viewportHeight,  \* the height of the scroll element, in px
    scrollTop,       \* its vertical scroll offset, in px
    renderedRows     \* the row indices the last render put in the body

tableVars ==
    <<data, rows, searchQuery, sortConfig, timer, mounted, effectiveQuery,
      burst, lastBurst>>

sorterVars ==
    <<sortHeaders, rowsToSort, sortColumn, sortDirection,
      sortedRows, sortedAgain, sortPhase>>

filterVars == <<filterInput, filterQuery, filterOutput, filterPhase>>

classifierVars == <<cell, cellIsEmpty, classifyPhase>>

\* The variables of the components other than the table and its sorter and
\* filter.
authVars ==
    <<isAuthenticated, username, password, formError, isLoading, loginResult,
      demoSession>>

fetchVars ==
    <<totalRows, metaStatus, metaAttempts, dataStatus, dataAttempts,
      currentRow, chunks, inFlight, gridData, requests, responses, dropped>>

windowVars ==
    <<tableVariant, count, isMobile, viewportHeight, scrollTop, renderedRows>>

laterVars == <<classifierVars, authVars, fetchVars, windowVars>>

vars == <<tableVars, sorterVars, filterVars, laterVars>>

(***************************************************************************)
(* The VirtualTable component                                              *)
(***************************************************************************)

\* const headers = data[0]
headers == data[1]

\* const originalRows = useMemo(() => data.slice(1), [data])
originalRows == Tail(data)

\* SortConfig = { column, direction } | null
null == [column |-> -1, direction |-> "null"]

\* The most search inputs of one burst (between two filter passes).
MaxBurst == 2

\* No call of the debounced function is pending.
NoTimer == [pending |-> FALSE, query |-> <<>>, originalRows |-> <<>>]

\* debouncedSearch(query), lodash debounce with the default trailing edge:
\* the call is recorded as the last one and runs when the wait has elapsed
\* with no later call.  closureRows is the originalRows the debounced
\* callback was created with (useCallback, [originalRows]).
debouncedSearch(t, query, closureRows) ==
    [pending |-> TRUE, query |-> query, originalRows |-> closureRows]

\* A cleanup that leaves the pending call armed.
cancel_Forgotten(t) == t

\* debouncedSearch.cancel(), the cleanup of the search effect.
cancel(t) == NoTimer

\* A search effect that lets a pending call stand: the first value of a
\* burst is the one that runs.
SearchEffect_FirstWins(t, query, closureRows) ==
    IF t.pending THEN t ELSE debouncedSearch(t, query, closureRows)

\* The search effect when searchQuery or debouncedSearch has changed: the
\* cleanup of the previous run, then debouncedSearch(searchQuery).
SearchEffect(t, query, closureRows) ==
    debouncedSearch(cancel(t), query, closureRows)

\* A toggle that does not look at the column of the previous Sort Spec.
newDirection_AnyColumn(prevSort, columnIndex) ==
    IF prevSort # null /\ prevSort.direction = "asc" THEN "desc" ELSE "asc"

\* The direction handleSort computes from the previous Sort Spec.
newDirection(prevSort, columnIndex) ==
    IF prevSort # null /\ prevSort.column = columnIndex /\ prevSort.direction = "asc"
    THEN "desc"
    ELSE "asc"

TableInit ==
    /\ data \in Grids
    /\ rows = originalRows
    /\ searchQuery = <<>>
    /\ sortConfig = null
    /\ timer = SearchEffect(NoTimer, <<>>, originalRows)
    /\ mounted = TRUE
    /\ effectiveQuery = <<>>
    /\ burst = 0
    /\ lastBurst = 0

\* onChange of the search input: setSearchQuery(e.target.value); a value
\* equal to the state leaves it alone, any other one reruns the search effect.
SearchInput(q) ==
    /\ mounted
    /\ q # searchQuery
    /\ burst < MaxBurst
    /\ searchQuery' = q
    /\ timer' = SearchEffect(timer, q, originalRows)
    /\ burst' = burst + 1
    /\ UNCHANGED <<data, rows, sortConfig, mounted, effectiveQuery, lastBurst>>

\* The wait of the debounced search elapses: the callback runs one filter
\* pass over the originalRows of its closure.  setRows of a component that
\* is no longer mounted changes nothing.
DebounceExpiry ==
    /\ timer.pending
    /\ rows' = IF mounted THEN FilterRows(timer.originalRows, timer.query) ELSE rows
    /\ effectiveQuery' = timer.query
    /\ timer' = NoTimer
    /\ burst' = 0
    /\ lastBurst' = burst
    /\ UNCHANGED <<data, searchQuery, sortConfig, mounted>>

\* onClick of a header cell: handleSort(columnIndex).
\* A header click that sorts the filtered-from array instead of the working
\* row array.
HeaderClick_SortsOriginalRows(columnIndex) ==
    /\ mounted
    /\ LET direction == newDirection(sortConfig, columnIndex)
       IN  /\ rows' = sortRows(headers, originalRows, columnIndex, direction)
           /\ sortConfig' = [column |-> columnIndex, direction |-> direction]
    /\ UNCHANGED <<data, searchQuery, timer, mounted, effectiveQuery,
                   burst, lastBurst>>

HeaderClick(columnIndex) ==
    /\ mounted
    /\ LET direction == newDirection(sortConfig, columnIndex)
       IN  /\ rows' = sortRows(headers, rows, columnIndex, direction)
           /\ sortConfig' = [column |-> columnIndex, direction |-> direction]
    /\ UNCHANGED <<data, searchQuery, timer, mounted, effectiveQuery,
                   burst, lastBurst>>

\* The fetch hook delivers another Grid: originalRows and debouncedSearch
\* are made anew and the search effect reruns; useState keeps rows.
DeliverGrid(grid) ==
    /\ mounted
    /\ grid # data
    /\ data' = grid
    /\ timer' = SearchEffect(timer, searchQuery, Tail(grid))
    /\ UNCHANGED <<rows, searchQuery, sortConfig, mounted, effectiveQuery,
                   burst, lastBurst>>

\* The component is torn down: the cleanup of the search effect runs.
Unmount ==
    /\ mounted
    /\ mounted' = FALSE
    /\ timer' = cancel(timer)
    /\ UNCHANGED <<data, rows, searchQuery, sortConfig, effectiveQuery,
                   burst, lastBurst>>

(***************************************************************************)
(* The sorter applied as a function to every row array of RowArrays        *)
(***************************************************************************)

SorterInit ==
    /\ sortHeaders \in HeaderRows
    /\ rowsToSort \in RowArrays
    /\ sortColumn \in Columns
    /\ sortDirection \in Directions
    /\ sortedRows = <<>>
    /\ sortedAgain = <<>>
    /\ sortPhase = "input"

\* sortRows(rowsToSort, columnIndex, direction)
SortCall ==
    /\ sortPhase = "input"
    /\ sortedRows' = sortRows(sortHeaders, rowsToSort, sortColumn, sortDirection)
    /\ sortPhase' = "sorted"
    /\ UNCHANGED <<sortHeaders, rowsToSort, sortColumn, sortDirection, sortedAgain>>

\* The result is sorted once more by the same column in the same direction.
SortAgain ==
    /\ sortPhase = "sorted"
    /\ sortedAgain' = sortRows(sortHeaders, sortedRows, sortColumn, sortDirection)
    /\ sortPhase' = "resorted"
    /\ UNCHANGED <<sortHeaders, rowsToSort, sortColumn, sortDirection, sortedRows>>

\* The same header is clicked again after an ascending sort: handleSort
\* sorts the working rows (the ascending result) descending.
SortToggle ==
    /\ sortPhase = "sorted"
    /\ sortDirection = "asc"
    /\ sortedAgain' =
           sortRows(sortHeaders, sortedRows, sortColumn,
                    newDirection([column |-> sortColumn, direction |-> sortDirection],
                                 sortColumn))
    /\ sortPhase' = "toggled"
    /\ UNCHANGED <<sortHeaders, rowsToSort, sortColumn, sortDirection, sortedRows>>

(***************************************************************************)
(* The filter applied as a function to every row array and query           *)
(***************************************************************************)

FilterInit ==
    /\ filterInput \in RowArrays
    /\ filterQuery \in Queries
    /\ filterOutput = <<>>
    /\ filterPhase = "input"

FilterCall ==
    /\ filterPhase = "input"
    /\ filterOutput' = FilterRows(filterInput, filterQuery)
    /\ filterPhase' = "filtered"
    /\ UNCHANGED <<filterInput, filterQuery>>

(***************************************************************************)
(* Specifications                                                          *)
(***************************************************************************)

\* The values of the variables a specification does not use.
TableIdle ==
    /\ data = GridScenario
    /\ rows = <<>>
    /\ searchQuery = <<>>
    /\ sortConfig = null
    /\ timer = NoTimer
    /\ mounted = FALSE
    /\ effectiveQuery = <<>>
    /\ burst = 0
    /\ lastBurst = 0

SorterIdle ==
    /\ sortHeaders = <<"Domain", "Traffic">>
    /\ rowsToSort = <<>>
    /\ sortColumn = 0
    /\ sortDirection = "asc"
    /\ sortedRows = <<>>
    /\ sortedAgain = <<>>
    /\ sortPhase = "idle"

FilterIdle ==
    /\ filterInput = <<>>
    /\ filterQuery = <<>>
    /\ filterOutput = <<>>
    /\ filterPhase = "idle"

ClassifierIdle ==
    /\ cell = <<>>
    /\ cellIsEmpty = FALSE
    /\ classifyPhase = "idle"

AuthIdle ==
    /\ isAuthenticated = FALSE
    /\ username = ""
    /\ password = ""
    /\ formError = ""
    /\ isLoading = FALSE
    /\ loginResult = "none"
    /\ demoSession = FALSE

FetchIdle ==
    /\ totalRows = 0
    /\ metaStatus = "idle"
    /\ metaAttempts = 0
    /\ dataStatus = "disabled"
    /\ dataAttempts = 0
    /\ currentRow = 1
    /\ chunks = <<>>
    /\ inFlight = {}
    /\ gridData = <<>>
    /\ requests = <<>>
    /\ responses = <<>>
    /\ dropped = {}

WindowIdle ==
    /\ tableVariant = "none"
    /\ count = 0
    /\ isMobile = FALSE
    /\ viewportHeight = 0
    /\ scrollTop = 0
    /\ renderedRows = {}

LaterIdle == ClassifierIdle /\ AuthIdle /\ FetchIdle /\ WindowIdle

\* The mounted table under user events, debounce expiry and Grid delivery.
Init == TableInit /\ SorterIdle /\ FilterIdle /\ LaterIdle

Next ==
    \/ \E q \in SearchInputs : SearchInput(q) /\ UNCHANGED <<sorterVars, filterVars, laterVars>>
    \/ DebounceExpiry /\ UNCHANGED <<sorterVars, filterVars, laterVars>>
    \/ \E c \in Columns : HeaderClick(c) /\ UNCHANGED <<sorterVars, filterVars, laterVars>>
    \/ \E g \in Grids : DeliverGrid(g) /\ UNCHANGED <<sorterVars, filterVars, laterVars>>
    \/ Unmount /\ UNCHANGED <<sorterVars, filterVars, laterVars>>

Spec == Init /\ [][Next]_vars

\* sortRows on every input of the bounded sets.
SortInit == TableIdle /\ SorterInit /\ FilterIdle /\ LaterIdle

SortNext ==
    \/ SortCall /\ UNCHANGED <<tableVars, filterVars, laterVars>>
    \/ SortAgain /\ UNCHANGED <<tableVars, filterVars, laterVars>>
    \/ SortToggle /\ UNCHANGED <<tableVars, filterVars, laterVars>>

SortSpec == SortInit /\ [][SortNext]_vars

\* The filter pass on every input of the bounded sets.
FilterSpecInit == TableIdle /\ SorterIdle /\ FilterInit /\ LaterIdle

FilterSpecNext == FilterCall /\ UNCHANGED <<tableVars, sorterVars, laterVars>>

FilterSpec == FilterSpecInit /\ [][FilterSpecNext]_vars

(***************************************************************************)
(* Properties of the mounted table (specification Spec)                    *)
(***************************************************************************)

\* C1: whenever a Sort Spec is active, the working row array is the data
\* rows of the Grid filtered by the effective query and then sorted by the
\* column and direction of the Sort Spec.
C1_ActiveSortIsApplied ==
    (mounted /\ sortConfig # null) =>
        rows = sortRows(headers, FilterRows(originalRows, effectiveQuery),
                        sortConfig.column, sortConfig.direction)

\* C3: in no state does the working row array hold a row that is not a data
\* row of the Grid the table has now (a row of a previous Grid).
C3_RowsAreOfTheCurrentGrid ==
    mounted => \A i \in DOMAIN rows : \E j \in DOMAIN originalRows :
                   rows[i] = originalRows[j]

\* C4: a pending debounced search always carries the latest raw query, so no
\* superseded value of a burst gets a filter pass; the pass that runs when
\* the delay elapses applies the last value and leaves nothing pending, and
\* only another input or another Grid arms the debounce again.
C4_OnePassWithTheLastValue ==
    /\ [](timer.pending => timer.query = searchQuery)
    /\ [][DebounceExpiry => (effectiveQuery' = searchQuery /\ ~timer'.pending)]_vars
    /\ [][(~timer.pending /\ timer'.pending) =>
              (searchQuery' # searchQuery \/ data' # data)]_vars

\* A filter pass has settled a burst of at least two inputs, the last of
\* which differs from the query that was in effect when the table mounted.
C4_BurstSettled ==
    /\ mounted
    /\ ~timer.pending
    /\ lastBurst >= 2
    /\ effectiveQuery = searchQuery
    /\ effectiveQuery # <<>>

\* C5: once the table is torn down no debounced search is pending and none
\* can fire, and no step runs a filter pass or changes the working rows.
C5_NoCallbackAfterTeardown ==
    /\ [](~mounted => (~timer.pending /\ ~ENABLED DebounceExpiry))
    /\ [][~mounted => (rows' = rows /\ effectiveQuery' = effectiveQuery)]_vars

\* The table was torn down while the search of the latest input was pending.
C5_TornDownWhilePending ==
    /\ ~mounted
    /\ burst > 0
    /\ searchQuery # effectiveQuery

\* toggleSort of the specification: Descending on the clicked column when
\* the Sort Spec is that column Ascending, Ascending on it otherwise.
ToggleSort(currentSpec, c) ==
    IF currentSpec = [column |-> c, direction |-> "asc"]
    THEN [column |-> c, direction |-> "desc"]
    ELSE [column |-> c, direction |-> "asc"]

\* C6: a click on column c takes every Sort Spec to ToggleSort of it, and no
\* step takes an active Sort Spec back to absent.
C6_ToggleSort ==
    /\ [][\A c \in Columns : HeaderClick(c) => sortConfig' = ToggleSort(sortConfig, c)]_vars
    /\ [][sortConfig # null => sortConfig' # null]_vars

\* A column was clicked while it was the active ascending one.
C6_Toggled == sortConfig = [column |-> 1, direction |-> "desc"]

(***************************************************************************)
(* Properties of the sorter (specification SortSpec)                       *)
(***************************************************************************)

Reverse(seq) == [i \in 1..Len(seq) |-> seq[Len(seq) + 1 - i]]

\* The kind of the sorted column and the cell of a row in it.
SortColumnType == ColumnType(sortHeaders[sortColumn + 1])

SortCell(row) == Cell(row, sortColumn)

\* The cell is empty (isEmptyValue).
CellEmpty(row) == isEmptyValue(SortCell(row))

\* The cell is not empty and, in a Numeric column, does not parse.
CellUnparseable(row) ==
    /\ ~CellEmpty(row)
    /\ SortColumnType = "number"
    /\ isNaN(parseNumericValue(SortCell(row)))

\* The cell is missing: empty or unparseable.
CellMissing(row) == CellEmpty(row) \/ CellUnparseable(row)

\* The cell is present and parseable.
CellPresent(row) == ~CellMissing(row)

\* Two rows have equal sort keys in the sorted column.
SameKey(a, b) == RowCompare(a, b, sortColumn, SortColumnType, "asc") = 0

Sorted == sortPhase \in {"sorted", "resorted", "toggled"}

ScenarioRows == <<RowB50, RowADash, RowCAbc>>

\* C2 as amended: an ascending sort of a Numeric column puts the rows with a
\* parseable value first, then the rows with a non-empty unparseable cell in
\* their original relative order, then the rows with an empty cell in their
\* original relative order; the Grid of the scenario comes out b.com, c.com,
\* a.com.
C2_NumericAscendingOrder ==
    (Sorted /\ SortColumnType = "number" /\ sortDirection = "asc") =>
        LET present     == SelectSeq(rowsToSort, CellPresent)
            unparseable == SelectSeq(rowsToSort, CellUnparseable)
            empty       == SelectSeq(rowsToSort, CellEmpty)
            n           == Len(present)
        IN  /\ Len(sortedRows) = Len(rowsToSort)
            /\ \A i \in 1..n : CellPresent(sortedRows[i])
            /\ SubSeq(sortedRows, n + 1, Len(sortedRows)) = unparseable \o empty
            /\ (rowsToSort = ScenarioRows /\ sortColumn = 1) =>
                   sortedRows = <<RowB50, RowCAbc, RowADash>>

\* The Grid of the scenario has been sorted by Traffic ascending.
C2_ScenarioSorted ==
    /\ Sorted
    /\ sortHeaders = <<"Domain", "Traffic">>
    /\ rowsToSort = ScenarioRows
    /\ sortColumn = 1
    /\ sortDirection = "asc"

\* C2 as stated: the rows with an empty or unparseable cell are at the end
\* in their original relative order, and the scenario comes out b.com,
\* a.com, c.com.
C2_MissingKeepOriginalOrder ==
    (Sorted /\ SortColumnType = "number" /\ sortDirection = "asc") =>
        LET present == SelectSeq(rowsToSort, CellPresent)
            missing == SelectSeq(rowsToSort, CellMissing)
            n       == Len(present)
        IN  /\ Len(sortedRows) = Len(rowsToSort)
            /\ \A i \in 1..n : CellPresent(sortedRows[i])
            /\ SubSeq(sortedRows, n + 1, Len(sortedRows)) = missing
            /\ (rowsToSort = ScenarioRows /\ sortColumn = 1) =>
                   sortedRows = <<RowB50, RowADash, RowCAbc>>

\* C7: in the result of a sort in either direction no row with a missing
\* cell stands before a row with a present, parseable cell.
C7_MissingLast ==
    Sorted =>
        /\ Len(sortedRows) = Len(rowsToSort)
        /\ \A i \in DOMAIN sortedRows : \A j \in DOMAIN sortedRows :
               (i < j) => ~(CellMissing(sortedRows[i]) /\ CellPresent(sortedRows[j]))

\* A descending sort has moved a row with a missing cell from the front of
\* the input behind a row with a present cell.
C7_MissingMovedLast ==
    /\ Sorted
    /\ sortDirection = "desc"
    /\ Len(rowsToSort) >= 2
    /\ CellMissing(rowsToSort[1])
    /\ \E j \in DOMAIN rowsToSort : CellPresent(rowsToSort[j])

\* C8 as amended: after an ascending sort and a second click on the column,
\* the rows with a present cell come in the reverse of their ascending order
\* up to rows with equal keys, which keep their relative order (exactly the
\* reverse when their keys are pairwise different), and the rows with a
\* missing cell stay at the end, in the same order.
C8_ToggleReversesKeys ==
    (sortPhase = "toggled") =>
        LET pa == SelectSeq(sortedRows, CellPresent)
            pd == SelectSeq(sortedAgain, CellPresent)
            ma == SelectSeq(sortedRows, CellMissing)
            md == SelectSeq(sortedAgain, CellMissing)
            n  == Len(pa)
        IN  /\ Len(pd) = n
            /\ \A i \in 1..n : SameKey(pd[i], pa[n + 1 - i])
            /\ (\A i \in 1..n : \A j \in 1..n : (i # j) => ~SameKey(pa[i], pa[j]))
                   => pd = Reverse(pa)
            /\ \A i \in 1..n : \A j \in 1..n :
                   (i < j /\ SameKey(pa[i], pa[j])) =>
                       \E k \in 1..n : \E l \in 1..n :
                           k < l /\ pd[k] = pa[i] /\ pd[l] = pa[j]
            /\ sortedRows = pa \o ma
            /\ sortedAgain = pd \o md
            /\ md = ma

\* A toggle that changed the order, over rows of which two different ones
\* have present cells with equal keys.
C8_ToggledWithTies ==
    /\ sortPhase = "toggled"
    /\ \E i \in DOMAIN sortedRows : \E j \in DOMAIN sortedRows :
           /\ i < j
           /\ sortedRows[i] # sortedRows[j]
           /\ CellPresent(sortedRows[i])
           /\ CellPresent(sortedRows[j])
           /\ SameKey(sortedRows[i], sortedRows[j])
    /\ sortedAgain # sortedRows

\* C8 as stated: the rows with a present cell come in exactly the reverse of
\* their ascending order, the rows with a missing cell stay at the end.
C8_ToggleReversesRows ==
    (sortPhase = "toggled") =>
        LET pa == SelectSeq(sortedRows, CellPresent)
            pd == SelectSeq(sortedAgain, CellPresent)
            ma == SelectSeq(sortedRows, CellMissing)
            md == SelectSeq(sortedAgain, CellMissing)
        IN  /\ pd = Reverse(pa)
            /\ sortedRows = pa \o ma
            /\ sortedAgain = pd \o md

\* C9: sorting the result of a sort again by the same column in the same
\* direction gives the same sequence.
C9_SortIdempotent == (sortPhase = "resorted") => sortedAgain = sortedRows

\* A sort that changed the order of its input, over rows of which two
\* different ones have equal keys, has been repeated.
C9_Resorted ==
    /\ sortPhase = "resorted"
    /\ sortedRows # rowsToSort
    /\ \E i \in DOMAIN sortedRows : \E j \in DOMAIN sortedRows :
           /\ i < j
           /\ sortedRows[i] # sortedRows[j]
           /\ SameKey(sortedRows[i], sortedRows[j])

(***************************************************************************)
(* Properties of the filter (specification FilterSpec)                     *)
(***************************************************************************)

\* The column-0 cell of the row, lower-cased, contains the lower-cased query
\* at some offset.
RowMatches(row, q) ==
    \E offset \in 0..(Len(row[1]) - Len(q)) :
        \A k \in 1..Len(q) : LowerChar(row[1][offset + k]) = LowerChar(q[k])

\* C10: the filter pass returns its input when the trimmed query is empty,
\* and otherwise the rows that match, each once, in the order of the input.
C10_FilterIsMatchingSubsequence ==
    (filterPhase = "filtered") =>
        LET matching == {i \in DOMAIN filterInput : RowMatches(filterInput[i], filterQuery)}
            blank    == \A k \in DOMAIN filterQuery : filterQuery[k] \in WhiteSpaceChars
        IN  /\ blank => filterOutput = filterInput
            /\ ~blank =>
                   /\ Len(filterOutput) = Cardinality(matching)
                   /\ Len(filterOutput) <= Len(filterInput)
                   /\ \A i \in matching :
                          filterOutput[Cardinality({j \in matching : j <= i})]
                              = filterInput[i]

\* A query in upper case has kept some rows of the input and dropped others.
C10_Narrowed ==
    /\ filterPhase = "filtered"
    /\ filterQuery = QueryUpperADot
    /\ filterOutput # <<>>
    /\ Len(filterOutput) < Len(filterInput)
    /\ Len(filterOutput) >= 2

(***************************************************************************)
(* Frame of a header click (specification Spec)                            *)
(***************************************************************************)

\* The number of positions of arr that hold row.
Occurrences(arr, row) == Cardinality({i \in DOMAIN arr : arr[i] = row})

IsPermutation(a, b) ==
    /\ Len(a) = Len(b)
    /\ \A row \in Range(a) \cup Range(b) : Occurrences(a, row) = Occurrences(b, row)

\* C14: a header click leaves the working row array a permutation of what it
\* was (no row re-admitted, dropped or duplicated) and leaves the raw and the
\* effective search query unchanged.
C14_HeaderClickKeepsRows ==
    [][\A c \in Columns :
          HeaderClick(c) =>
              /\ IsPermutation(rows', rows)
              /\ searchQuery' = searchQuery
              /\ effectiveQuery' = effectiveQuery]_vars

\* A click has reordered a working row array that a search had narrowed.
C14_ClickedWhileNarrowed ==
    /\ mounted
    /\ sortConfig # null
    /\ effectiveQuery # <<>>
    /\ Len(rows) > 1
    /\ Len(rows) < Len(originalRows)
    /\ rows # FilterRows(originalRows, effectiveQuery)
    /\ IsPermutation(rows, FilterRows(originalRows, effectiveQuery))

(***************************************************************************)
(* The empty-value classifier on every cell of a bounded set               *)
(* (specification ClassifierSpec)                                          *)
(***************************************************************************)

MaxCellLen == 3

CellAlphabet == {" ", "\t", "-", "n", "0"}

\* Cells that differ from a literal in case or in surrounding whitespace.
NearLiterals ==
    { <<"N", "u", "l", "l">>, <<"n", "u", "l", "l", " ">>,
      <<" ", "n", "u", "l", "l">>, <<"N", "U", "L", "L">>,
      <<"u", "n", "d", "e", "f", "i", "n", "e", "d", " ">>,
      <<"U", "n", "d", "e", "f", "i", "n", "e", "d">>,
      <<"n", "o", "t", " ", "p", "r", "o", "v", "i", "d", "e", "d">>,
      <<"N", "o", "t", "P", "r", "o", "v", "i", "d", "e", "d">>,
      <<"N", "o", "t", " ", "P", "r", "o", "v", "i", "d", "e", "d", " ">> }

ClassifierCells ==
    UNION {[1..n -> CellAlphabet] : n \in 0..MaxCellLen}
        \cup {StrUndefined, StrNull, StrNotProvided, StrDash}
        \cup NearLiterals

ClassifierInit ==
    /\ cell \in ClassifierCells
    /\ cellIsEmpty = FALSE
    /\ classifyPhase = "input"

\* isEmptyValue(cell)
Classify ==
    /\ classifyPhase = "input"
    /\ cellIsEmpty' = isEmptyValue(cell)
    /\ classifyPhase' = "classified"
    /\ UNCHANGED cell

ClassifierSpecInit ==
    /\ TableIdle /\ SorterIdle /\ FilterIdle
    /\ ClassifierInit /\ AuthIdle /\ FetchIdle /\ WindowIdle

ClassifierSpecNext ==
    Classify /\ UNCHANGED <<tableVars, sorterVars, filterVars, authVars,
                             fetchVars, windowVars>>

ClassifierSpec == ClassifierSpecInit /\ [][ClassifierSpecNext]_vars

\* C13: a string cell is classified empty exactly when it is the empty
\* string, consists of whitespace only, or is exactly one of the literals
\* "undefined", "null", "Not Provided", "-".
C13_EmptyIffBlankOrLiteral ==
    classifyPhase = "classified" =>
        (cellIsEmpty <=>
            \/ Len(cell) = 0
            \/ \A i \in DOMAIN cell : cell[i] \in WhiteSpaceChars
            \/ cell = <<"u", "n", "d", "e", "f", "i", "n", "e", "d">>
            \/ cell = <<"n", "u", "l", "l">>
            \/ cell = <<"N", "o", "t", " ", "P", "r", "o", "v", "i", "d", "e", "d">>
            \/ cell = <<"-">>)

\* A dash with whitespace before it has been classified as present.
C13_PaddedDashPresent ==
    /\ classifyPhase = "classified"
    /\ cell = <<" ", "-">>
    /\ ~cellIsEmpty

(***************************************************************************)
(* AuthProvider and LoginForm (specification AuthSpec)                     *)
(***************************************************************************)

Usernames == {"", "demo", "Demo", "demo ", "admin"}

Passwords == {"", "demo", "DEMO", "admin"}

\* A login that looks at the username only.
login_UsernameOnly(credentials) == credentials.username = "demo"

\* What login resolves to; it sets isAuthenticated exactly when it resolves
\* to true.
login(credentials) ==
    credentials.username = "demo" /\ credentials.password = "demo"

AuthInit == AuthIdle

\* onChange of the username input (disabled while a submit is pending)
SetUsername(u) ==
    /\ ~isLoading
    /\ u # username
    /\ username' = u
    /\ UNCHANGED <<isAuthenticated, password, formError, isLoading,
                   loginResult, demoSession>>

\* onChange of the password input (disabled while a submit is pending)
SetPassword(p) ==
    /\ ~isLoading
    /\ p # password
    /\ password' = p
    /\ UNCHANGED <<isAuthenticated, username, formError, isLoading,
                   loginResult, demoSession>>

\* handleSubmit up to its await: the validation, then the call of login.
HandleSubmit ==
    /\ ~isLoading
    /\ IF username = "" \/ password = ""
       THEN /\ formError' = "Please fill in all fields"
            /\ UNCHANGED <<isAuthenticated, isLoading, loginResult, demoSession>>
       ELSE LET success == login([username |-> username, password |-> password])
            IN  /\ isLoading' = TRUE
                /\ formError' = ""
                /\ isAuthenticated' = (IF success THEN TRUE ELSE isAuthenticated)
                /\ loginResult' = (IF success THEN "true" ELSE "false")
                /\ demoSession' =
                       (IF username = "demo" /\ password = "demo"
                        THEN TRUE ELSE demoSession)
    /\ UNCHANGED <<username, password>>

\* handleSubmit after its await.
SubmitSettled ==
    /\ isLoading
    /\ formError' = (IF loginResult = "false" THEN "Invalid credentials" ELSE formError)
    /\ isLoading' = FALSE
    /\ UNCHANGED <<isAuthenticated, username, password, loginResult, demoSession>>

logout ==
    /\ isAuthenticated' = FALSE
    /\ demoSession' = FALSE
    /\ UNCHANGED <<username, password, formError, isLoading, loginResult>>

\* The variables of every component but the auth provider and its form.
notAuthVars ==
    <<tableVars, sorterVars, filterVars, classifierVars, fetchVars, windowVars>>

AuthSpecInit ==
    /\ TableIdle /\ SorterIdle /\ FilterIdle
    /\ ClassifierIdle /\ AuthInit /\ FetchIdle /\ WindowIdle

AuthSpecNext ==
    \/ \E u \in Usernames : SetUsername(u) /\ UNCHANGED notAuthVars
    \/ \E p \in Passwords : SetPassword(p) /\ UNCHANGED notAuthVars
    \/ HandleSubmit /\ UNCHANGED notAuthVars
    \/ SubmitSettled /\ UNCHANGED notAuthVars
    \/ logout /\ UNCHANGED notAuthVars

AuthSpec == AuthSpecInit /\ [][AuthSpecNext]_vars

\* C16: isAuthenticated is true only if a login with username 'demo' and
\* password 'demo' has occurred with no logout since; a login with any other
\* credentials resolves to false and leaves isAuthenticated unchanged; logout
\* always sets it to false.
C16_AuthenticatedOnlyByDemoLogin ==
    /\ [](isAuthenticated => demoSession)
    /\ [][(/\ HandleSubmit
           /\ isLoading'
           /\ ~(username = "demo" /\ password = "demo"))
              => (loginResult' = "false" /\ isAuthenticated' = isAuthenticated)]_vars
    /\ [][logout => ~isAuthenticated']_vars

\* A login with the right username and a wrong password has been refused.
C16_WrongPasswordRefused ==
    /\ username = "demo"
    /\ password = "DEMO"
    /\ loginResult = "false"
    /\ formError = "Invalid credentials"
    /\ ~isAuthenticated

(***************************************************************************)
(* useGoogleSheets (specification FetchSpec)                               *)
(***************************************************************************)

CHUNK_SIZE == 2000

\* The largest number of chunks a sheet of the model needs.
MaxChunks == 3

\* The failed attempts after which a query is no longer retried.
MaxRetries == 1

\* gridProperties.rowCount of the sheets of the model: the empty sheet and
\* the sheets that end on the first or on the last row of a chunk.
RowCounts ==
    {0} \cup {k * CHUNK_SIZE + d : k \in 0..(MaxChunks - 1), d \in {1, CHUNK_SIZE}}

\* A window that ends on the first row of the next one.
ChunkEnd_Overlapping(startRow) == startRow + CHUNK_SIZE

\* fetchChunk(currentRow, currentRow + CHUNK_SIZE - 1)
ChunkEnd(startRow) == startRow + CHUNK_SIZE - 1

\* The values a successful response can carry for a request: the rows of the
\* window, by row number, up to the last row of the window that has content.
ChunkValues(request) ==
    {<<request.startRow>>} \cup
        (IF request.startRow + 1 <= totalRows
         THEN {<<request.startRow, request.startRow + 1>>}
         ELSE {})

FetchInit ==
    /\ totalRows = 0
    /\ metaStatus = "pending"
    /\ metaAttempts = 0
    /\ dataStatus = "disabled"
    /\ dataAttempts = 0
    /\ currentRow = 1
    /\ chunks = <<>>
    /\ inFlight = {}
    /\ gridData = <<>>
    /\ requests = <<>>
    /\ responses = <<>>
    /\ dropped = {}

\* fetchMetadata resolves: setTotalRows(rowCount); a positive totalRows
\* enables dataQuery, whose queryFn starts with chunks = [], currentRow = 1.
MetadataOk(rowCount) ==
    /\ metaStatus = "pending"
    /\ totalRows' = rowCount
    /\ metaStatus' = "success"
    /\ dataStatus' = (IF rowCount > 0 THEN "running" ELSE "disabled")
    /\ currentRow' = 1
    /\ chunks' = <<>>
    /\ UNCHANGED <<metaAttempts, dataAttempts, inFlight, gridData, requests,
                   responses, dropped>>

\* fetchMetadata rejects: fetch fails, or the body is an API error, which
\* has no sheets, so that data.sheets[0] throws.  The query is tried again or
\* ends in its error state.
MetadataFails(retry) ==
    /\ metaStatus = "pending"
    /\ IF retry
       THEN /\ metaAttempts < MaxRetries
            /\ metaAttempts' = metaAttempts + 1
            /\ UNCHANGED metaStatus
       ELSE /\ metaStatus' = "error"
            /\ UNCHANGED metaAttempts
    /\ UNCHANGED <<totalRows, dataStatus, dataAttempts, currentRow, chunks,
                   inFlight, gridData, requests, responses, dropped>>

\* while (currentRow <= totalRows) { ... fetchChunk(currentRow, ...) }
IssueChunk ==
    /\ dataStatus = "running"
    /\ inFlight = {}
    /\ currentRow <= totalRows
    /\ LET request == [startRow |-> currentRow, endRow |-> ChunkEnd(currentRow)]
       IN  /\ inFlight' = {request}
           /\ requests' = Append(requests, request)
    /\ UNCHANGED <<totalRows, metaStatus, metaAttempts, dataStatus, dataAttempts,
                   currentRow, chunks, gridData, responses, dropped>>

\* The awaited response has values: chunks.push(...chunk.values).
ChunkWithValues ==
    /\ dataStatus = "running"
    /\ \E request \in inFlight : \E values \in ChunkValues(request) :
          /\ chunks' = chunks \o values
          /\ responses' = Append(responses, values)
          /\ inFlight' = inFlight \ {request}
    /\ currentRow' = currentRow + CHUNK_SIZE
    /\ UNCHANGED <<totalRows, metaStatus, metaAttempts, dataStatus, dataAttempts,
                   gridData, requests, dropped>>

\* The awaited response is a body without values: that of a window with no
\* content, or (apiError) the error body of a refused request.  Either way
\* `if (chunk.values)` skips it.
ChunkWithoutValues(apiError) ==
    /\ dataStatus = "running"
    /\ \E request \in inFlight :
          /\ inFlight' = inFlight \ {request}
          /\ dropped' = (IF apiError THEN dropped \cup {request.startRow} ELSE dropped)
    /\ responses' = Append(responses, <<>>)
    /\ currentRow' = currentRow + CHUNK_SIZE
    /\ UNCHANGED <<totalRows, metaStatus, metaAttempts, dataStatus, dataAttempts,
                   chunks, gridData, requests>>

\* The awaited fetch rejects (network failure): queryFn throws.  The query is
\* tried again from its first line or ends in its error state.
ChunkRejected(retry) ==
    /\ dataStatus = "running"
    /\ inFlight # {}
    /\ inFlight' = {}
    /\ IF retry
       THEN /\ dataAttempts < MaxRetries
            /\ dataAttempts' = dataAttempts + 1
            /\ currentRow' = 1
            /\ chunks' = <<>>
            /\ requests' = <<>>
            /\ responses' = <<>>
            /\ dropped' = {}
            /\ UNCHANGED dataStatus
       ELSE /\ dataStatus' = "error"
            /\ UNCHANGED <<dataAttempts, currentRow, chunks, requests,
                           responses, dropped>>
    /\ UNCHANGED <<totalRows, metaStatus, metaAttempts, gridData>>

\* The loop ends: return chunks.
DataQueryDone ==
    /\ dataStatus = "running"
    /\ inFlight = {}
    /\ currentRow > totalRows
    /\ dataStatus' = "success"
    /\ gridData' = chunks
    /\ UNCHANGED <<totalRows, metaStatus, metaAttempts, dataAttempts,
                   currentRow, chunks, inFlight, requests, responses, dropped>>

\* isLoading: metadataQuery.isLoading || dataQuery.isLoading
hookIsLoading == metaStatus = "pending" \/ dataStatus = "running"

\* error: metadataQuery.error || dataQuery.error is not absent
hookHasError == metaStatus = "error" \/ dataStatus = "error"

\* The variables of every component but the fetch hook.
notFetchVars ==
    <<tableVars, sorterVars, filterVars, classifierVars, authVars, windowVars>>

FetchSpecInit ==
    /\ TableIdle /\ SorterIdle /\ FilterIdle
    /\ ClassifierIdle /\ AuthIdle /\ FetchInit /\ WindowIdle

FetchSpecNext ==
    \/ \E n \in RowCounts : MetadataOk(n) /\ UNCHANGED notFetchVars
    \/ \E retry \in BOOLEAN : MetadataFails(retry) /\ UNCHANGED notFetchVars
    \/ IssueChunk /\ UNCHANGED notFetchVars
    \/ ChunkWithValues /\ UNCHANGED notFetchVars
    \/ \E apiError \in BOOLEAN : ChunkWithoutValues(apiError) /\ UNCHANGED notFetchVars
    \/ \E retry \in BOOLEAN : ChunkRejected(retry) /\ UNCHANGED notFetchVars
    \/ DataQueryDone /\ UNCHANGED notFetchVars

FetchSpec == FetchSpecInit /\ [][FetchSpecNext]_vars

RECURSIVE Concatenation(_)
\* The concatenation of the sequences of a sequence, in order.
Concatenation(seqs) ==
    IF seqs = <<>> THEN <<>> ELSE Head(seqs) \o Concatenation(Tail(seqs))

\* C15: the chunk requests of a data fetch are issued one at a time (each is
\* answered before the next is issued), as the consecutive windows 1..2000,
\* 2001..4000, ... in this order; once the fetch has succeeded they cover
\* every row 1..totalRows with no window beyond, and the Grid is the
\* concatenation of the returned values in request order; no chunk request
\* is issued while totalRows is 0.
C15_ChunksInOrderAndConcatenated ==
    /\ \A i \in DOMAIN requests :
          requests[i] = [startRow |-> 2000 * (i - 1) + 1, endRow |-> 2000 * i]
    /\ Cardinality(inFlight) <= 1
    /\ inFlight # {} => (requests # <<>> /\ inFlight = {requests[Len(requests)]})
    /\ dataStatus # "error" => Len(responses) = Len(requests) - Cardinality(inFlight)
    /\ totalRows = 0 => (requests = <<>> /\ inFlight = {})
    /\ dataStatus = "success" =>
          /\ totalRows > 0
          /\ \A row \in 1..totalRows :
                \E i \in DOMAIN requests :
                    requests[i].startRow <= row /\ row <= requests[i].endRow
          /\ requests[Len(requests)].startRow <= totalRows
          /\ gridData = Concatenation(responses)

\* A sheet of 4001 rows has been fetched in three requests, and chunks with
\* values on both sides of a chunk without values have been concatenated.
C15_ThreeChunksFetched ==
    /\ dataStatus = "success"
    /\ totalRows = 4001
    /\ Len(requests) = 3
    /\ gridData = <<1, 2, 4001>>

\* C12: once loading has ended, a failed request of the fetch has been
\* surfaced as an error: the hook does not finish without an error while a
\* chunk request was answered by an API error and its rows are missing from
\* the Grid.
C12_FailuresAreSurfaced ==
    (~hookIsLoading /\ dropped # {}) => hookHasError

(***************************************************************************)
(* The windowed table body (specification WindowSpec)                      *)
(***************************************************************************)

Min(a, b) == IF a <= b THEN a ELSE b

Max(a, b) == IF a >= b THEN a ELSE b

\* The least integer not below a / b, for a >= 0 and b > 0.
CeilDiv(a, b) == (a + b - 1) \div b

\* estimateSize: () => isMobile ? 40 : 48, and () => 35 in the older table
estimateSize(variant, mobile) ==
    IF variant = "part_001" THEN 35 ELSE IF mobile THEN 40 ELSE 48

\* overscan: 10, and overscan: 5 in the older table
overscan(variant) == IF variant = "part_001" THEN 5 ELSE 10

\* The virtualizer's visible range for n items of one size: from the item
\* that holds the scroll offset to the item that holds the end of the
\* viewport, within the items there are.
calculateRange(n, size, outerSize, scrollOffset) ==
    LET startIndex == Min(scrollOffset \div size, n - 1)
        endIndex   == Min(Max(CeilDiv(scrollOffset + outerSize, size) - 1,
                              startIndex),
                          n - 1)
    IN  [startIndex |-> startIndex, endIndex |-> endIndex]

\* The virtualizer's indices for a range: the range widened by the overscan
\* on both sides, within the items there are.
rangeExtractor(range, n, margin) ==
    Max(range.startIndex - margin, 0) .. Min(range.endIndex + margin, n - 1)

\* rowVirtualizer.getVirtualItems(), as the indices of the items.
getVirtualItems(n, size, margin, outerSize, scrollOffset) ==
    IF n = 0
    THEN {}
    ELSE rangeExtractor(calculateRange(n, size, outerSize, scrollOffset), n, margin)

\* A body that maps over every row.
RenderedIndices_AllRows(variant, n, mobile, outerSize, scrollOffset) == 0..(n - 1)

\* rowVirtualizer.getVirtualItems().map((virtualRow) => ... rows[virtualRow.index] ...)
RenderedIndices(variant, n, mobile, outerSize, scrollOffset) ==
    getVirtualItems(n, estimateSize(variant, mobile), overscan(variant),
                    outerSize, scrollOffset)

\* The row counts of the model.
RowTotals == {0, 1, 10, 25, 100000}

\* The heights of the scroll element: "calc(100vh - 280px | 220px)" capped by
\* maxHeight: "600px"; '500px' in the older table.
ViewportHeights(variant) == IF variant = "part_001" THEN {500} ELSE {80, 100, 600}

\* The largest scroll offset of the scroll element.
MaxScroll(n, size, outerSize) == Max(n * size - outerSize, 0)

\* Scroll offsets at, next to and between row boundaries, at the top, in the
\* middle and at the end of the list.
ScrollSamples(n, size, outerSize) ==
    LET maxScroll == MaxScroll(n, size, outerSize)
    IN  {0, 1, size - 1, size, size + 1, 11 * size, 12 * size - 1, 12 * size + 20,
         maxScroll \div 2, maxScroll - 1, maxScroll}
            \cap (0..maxScroll)

\* The sampled scroll offsets of the mounted body.
ScrollOffsets ==
    ScrollSamples(count, estimateSize(tableVariant, isMobile), viewportHeight)

WindowInit ==
    /\ tableVariant \in {"VirtualDataTable", "part_001"}
    /\ count \in RowTotals
    /\ isMobile \in (IF tableVariant = "part_001" THEN {FALSE} ELSE BOOLEAN)
    /\ viewportHeight \in ViewportHeights(tableVariant)
    /\ scrollTop = 0
    /\ renderedRows = RenderedIndices(tableVariant, count, isMobile, viewportHeight, 0)

\* The user scrolls the body; the virtualizer re-renders the component.
Scroll(offset) ==
    /\ offset # scrollTop
    /\ offset \in ScrollOffsets
    /\ scrollTop' = offset
    /\ renderedRows' =
           RenderedIndices(tableVariant, count, isMobile, viewportHeight, offset)
    /\ UNCHANGED <<tableVariant, count, isMobile, viewportHeight>>

\* The window is resized: handleResize sets isMobile, the scroll element gets
\* its new height, and the browser keeps the scroll offset within its range.
Resize(mobile, height) ==
    /\ tableVariant = "VirtualDataTable"
    /\ <<mobile, height>> # <<isMobile, viewportHeight>>
    /\ isMobile' = mobile
    /\ viewportHeight' = height
    /\ scrollTop' =
           Min(scrollTop,
               MaxScroll(count, estimateSize(tableVariant, mobile), height))
    /\ renderedRows' =
           RenderedIndices(tableVariant, count, mobile, height, scrollTop')
    /\ UNCHANGED <<tableVariant, count>>

\* A filter pass sets a working row array of another length.
RowsChange(n) ==
    /\ n # count
    /\ count' = n
    /\ scrollTop' =
           Min(scrollTop,
               MaxScroll(n, estimateSize(tableVariant, isMobile), viewportHeight))
    /\ renderedRows' =
           RenderedIndices(tableVariant, n, isMobile, viewportHeight, scrollTop')
    /\ UNCHANGED <<tableVariant, isMobile, viewportHeight>>

\* The variables of every component but the windowed body.
notWindowVars ==
    <<tableVars, sorterVars, filterVars, classifierVars, authVars, fetchVars>>

WindowSpecInit ==
    /\ TableIdle /\ SorterIdle /\ FilterIdle
    /\ ClassifierIdle /\ AuthIdle /\ FetchIdle /\ WindowInit

WindowSpecNext ==
    \/ \E offset \in ScrollOffsets : Scroll(offset) /\ UNCHANGED notWindowVars
    \/ \E mobile \in BOOLEAN : \E height \in ViewportHeights(tableVariant) :
          Resize(mobile, height) /\ UNCHANGED notWindowVars
    \/ \E n \in RowTotals : RowsChange(n) /\ UNCHANGED notWindowVars

WindowSpec == WindowSpecInit /\ [][WindowSpecNext]_vars

\* The rows of which a part lies within the viewport [scrollTop, scrollTop +
\* viewportHeight), counted among the rows at most one row away from it.
VisibleCount ==
    LET size == estimateSize(tableVariant, isMobile)
        near == Max(scrollTop \div size - 1, 0)
                    .. Min((scrollTop + viewportHeight) \div size + 1, count - 1)
    IN  Cardinality({i \in near :
                        /\ i * size < scrollTop + viewportHeight
                        /\ (i + 1) * size > scrollTop})

\* C11: the rendered row indices are a contiguous range of indices of the
\* working row array, of at most visibleCount + 2 * overscan indices, where
\* visibleCount, the number of rows in the viewport, is at most one more than
\* the rows that fit the viewport height, whatever the total row count.
C11_RenderedWindowIsBounded ==
    /\ Cardinality(renderedRows) <= VisibleCount + 2 * overscan(tableVariant)
    /\ VisibleCount
          <= CeilDiv(viewportHeight, estimateSize(tableVariant, isMobile)) + 1
    /\ renderedRows \subseteq 0..(count - 1)
    /\ \A i \in renderedRows :
          i + 1 \in renderedRows \/ \A j \in renderedRows : j <= i

\* Deep in a list of 100,000 rows, at an offset between two row boundaries,
\* the window is as large as the bound allows.
C11_FullWindowMidList ==
    /\ tableVariant = "VirtualDataTable"
    /\ count = 100000
    /\ scrollTop > 0
    /\ scrollTop % estimateSize(tableVariant, isMobile) # 0
    /\ VisibleCount = CeilDiv(viewportHeight, estimateSize(tableVariant, isMobile)) + 1
    /\ Cardinality(renderedRows) = VisibleCount + 2 * overscan(tableVariant)

=============================================================================
